---- MODULE Spec2Model ----
(***************************************************************************)
(* Model of the synthetic sensor-data generator (bin/data_generator.py):   *)
(* the batch locator get_latest_batch_info, the record synthesizer         *)
(* generate_sensor_data, the writer write_csv and the command-line run     *)
(* that chains them, over a model of the output directory; and of the      *)
(* scripts that send files to the bucket (setup/03_upload_file.py,         *)
(* setup/01_configure_s3.py, setup/03_upload_initial_data.py,              *)
(* setup/06_demo_critical_data.py).                                        *)
(*                                                                         *)
(* Time is counted in ticks, TicksPerSec ticks to the second (a datetime   *)
(* carries microseconds, a formatted timestamp only whole seconds).  A     *)
(* formatted timestamp "%Y-%m-%dT%H:%M:%SZ" is represented by its count of *)
(* whole seconds; any text that is no ISO timestamp by NotATimestamp.      *)
(* Sensor values and probabilities are counted in thousandths: 65.0 is     *)
(* 65000, 0.15 is 150.                                                     *)
(***************************************************************************)
EXTENDS Integers, Sequences, FiniteSets, TLC

VARIABLES dirExists, files, now, proc, snapshot, written, runs, bucket,
          uploads, cursor, evaluations

vars == <<dirExists, files, now, proc, snapshot, written, runs, bucket,
         uploads, cursor, evaluations>>

----------------------------------------------------------------------------
(* Bounds of the model *)

TicksPerSec == 2
MaxClock == 1
MaxRuns == 3
MaxR == 1
MaxTotal == 6
MaxBatchNum == 12
MaxReadings == 1
MaxUploads == 1
MaxRows == 2
MaxGenR == 2
MaxEvals == 2

(* Program constants *)

HourSecs == 3600
IncBase == 15
IncEvery == 10
GapMin == 10
GapMax == 30
NumDefaultMachines == 10
ZFillWidth == 3
DefaultAnomalies == 150
CriticalShare == 300
HighSideShare == 500
FiveMinSecs == 300

None == -1
NotATimestamp == -2

Procs == {1, 2}

----------------------------------------------------------------------------
(* datetime *)

timedelta(seconds) == seconds * TicksPerSec

\* datetime.now(utc) - timedelta(hours=1)
now_minus_one_hour(clock) == clock - timedelta(HourSecs)

\* current_time.strftime("%Y-%m-%dT%H:%M:%SZ"): the sub-second part is dropped
strftime(dt) == dt \div TicksPerSec

\* datetime.fromisoformat(s.replace('Z', '+00:00')) succeeds
IsIsoTimestamp(s) == s >= 0

\* the datetime fromisoformat returns for a timestamp of whole seconds
fromisoformat(s) == s * TicksPerSec

----------------------------------------------------------------------------
(* File names and file contents *)

\* f"sensor_data_batch_{next_batch_num}.csv"
BatchFileName(n) == "sensor_data_batch_" \o ToString(n) \o ".csv"

GlobOnlyName == "sensor_data_batch_old.csv"
OtherName == "notes.txt"

BatchNums == 0..MaxBatchNum

\* the names sensor_data_batch_<digits>.csv
BatchFileNames == {BatchFileName(n) : n \in BatchNums}

\* the number each of them shows
NumberShown == [name \in BatchFileNames |->
                   CHOOSE n \in BatchNums : name = BatchFileName(n)]

\* glob.glob(os.path.join(output_dir, "sensor_data_batch_*.csv"))
GlobMatches(name) == name = GlobOnlyName \/ name \in BatchFileNames

\* re.search(r"sensor_data_batch_(\d+).csv", basename) finds a match
RegexMatches(name) == name \in BatchFileNames

\* int(match.group(1))
RegexNum(name) == NumberShown[name]

\* the CSV header row; its second column is the word "timestamp"
HeaderRow ==
    <<"machine_id", NotATimestamp, "temperature", "vibration", "pressure",
      "status_code">>

\* a row whose cells are in the alphabetical order of the record's keys
RowOfSortedKeys(record) ==
    <<record.machine_id, record.pressure, record.status_code,
      record.temperature, record.timestamp, record.vibration>>

\* one CSV row of a record, its cells in the order of field_names; a cell
\* of a number is the number it shows
RowOf(record) ==
    <<record.machine_id, record.timestamp, record.temperature,
      record.vibration, record.pressure, record.status_code>>

BlankRow == <<>>
ShortRow == <<"M0">>

Readable(lines) == [ok |-> TRUE, lines |-> lines]
Unreadable == [ok |-> FALSE, lines |-> <<>>]

----------------------------------------------------------------------------
(* The random source.  A run draws under one of four modes: in "min" and   *)
(* "max" every draw takes its least or its greatest outcome.               *)

(* In "free" the draws of randint and choice are free and those of random  *)
(* and uniform take their greatest outcome; in "wide" the draws of random, *)
(* uniform and choice are free and those of randint take their least.      *)

RngModes == {"min", "max", "free", "wide"}

\* random.randint(a, b): the two ends of the range are modelled
randint(rng, a, b) ==
    IF rng \in {"min", "wide"} THEN {a} ELSE IF rng = "max" THEN {b} ELSE {a, b}

\* random.choice(seq), as an index of seq
choice(rng, seq) ==
    IF rng = "min" THEN {1} ELSE IF rng = "max" THEN {Len(seq)} ELSE 1..Len(seq)

\* outcomes of a draw from the closed interval [0.0, 1.0]
RandomOutcomesClosed == {0, 149, 150, 299, 300, 499, 500, 999, 1000}

\* the outcomes of random.random() modelled: 0.0, and the values next to
\* the probabilities the code compares a draw with, up to 0.999
RandomOutcomes == {0, 149, 150, 299, 300, 499, 500, 999}

\* random.random(): a value of [0.0, 1.0)
random(rng) ==
    IF rng = "min" THEN {0} ELSE IF rng \in {"max", "free"} THEN {999}
    ELSE RandomOutcomes

\* random.uniform(a, b): the two ends of the range and a value between them
\* that is no multiple of 0.01
uniform(rng, a, b) ==
    IF rng = "min" THEN {a} ELSE IF rng \in {"max", "free"} THEN {b}
    ELSE {a, ((a + b) \div 2) + 1, b}

----------------------------------------------------------------------------
(* get_latest_batch_info *)

NoFile == ""

\* the decimal digits of n
RECURSIVE Digits(_)
Digits(n) == IF n < 10 THEN <<n>> ELSE Digits(n \div 10) \o <<n % 10>>

\* s sorts after t as a string
RECURSIVE StringGreater(_, _)
StringGreater(s, t) ==
    IF s = <<>> THEN FALSE
    ELSE IF t = <<>> THEN TRUE
    ELSE IF Head(s) # Head(t) THEN Head(s) > Head(t)
    ELSE StringGreater(Tail(s), Tail(t))

\* a comparison of the batch numbers as the strings the file names show
DecimalStringGreater(batch_num, latest_batch_num) ==
    StringGreater(Digits(batch_num), Digits(latest_batch_num))

\* a comparison that lets batch 0 through
BatchNumGeq(batch_num, latest_batch_num) == batch_num >= latest_batch_num

\* a comparison that keeps the lowest number
BatchNumLess(batch_num, latest_batch_num) == batch_num < latest_batch_num

\* a comparison that keeps whichever file is listed later
ListedLater(batch_num, latest_batch_num) == TRUE

\* if batch_num > latest_batch_num
BatchNumGreater(batch_num, latest_batch_num) == batch_num > latest_batch_num

\* for f in batch_files: ... (lines 18-27), in the order the glob lists them
RECURSIVE ScanBatchFiles(_, _, _)
ScanBatchFiles(batch_files, latest_batch_num, latest_file) ==
    IF batch_files = {}
    THEN [latest_batch_num |-> latest_batch_num, latest_file |-> latest_file]
    ELSE LET f == CHOOSE x \in batch_files : TRUE
             rest == batch_files \ {f}
         IN  IF RegexMatches(f) /\ BatchNumGreater(RegexNum(f), latest_batch_num)
             THEN ScanBatchFiles(rest, RegexNum(f), f)
             ELSE ScanBatchFiles(rest, latest_batch_num, latest_file)

\* a loop that stops at the first non-empty row
RECURSIVE FirstNonEmptyRow(_, _)
FirstNonEmptyRow(rows, last_line) ==
    IF rows = <<>> THEN last_line
    ELSE IF Head(rows) # <<>> THEN Head(rows)
    ELSE FirstNonEmptyRow(Tail(rows), last_line)

\* for row in reader: if row: last_line = row
RECURSIVE LastNonEmptyRow(_, _)
LastNonEmptyRow(rows, last_line) ==
    IF rows = <<>> THEN last_line
    ELSE LastNonEmptyRow(Tail(rows),
                         IF Head(rows) # <<>> THEN Head(rows) ELSE last_line)

\* the try block without the test of line 39: last_line[1] is evaluated
\* when last_line is None
ReadLastTimestampUnguarded(content) ==
    IF ~content.ok THEN [exc |-> "OSError", ts |-> None]
    ELSE IF content.lines = <<>> THEN [exc |-> "StopIteration", ts |-> None]
    ELSE LET last_line == LastNonEmptyRow(Tail(content.lines), <<>>)
         IN  IF last_line = <<>> THEN [exc |-> "TypeError", ts |-> None]
             ELSE IF Len(last_line) < 2 THEN [exc |-> "IndexError", ts |-> None]
             ELSE IF ~IsIsoTimestamp(last_line[2])
                  THEN [exc |-> "ValueError", ts |-> None]
             ELSE [exc |-> "", ts |-> fromisoformat(last_line[2])]

\* the try block of lines 30-42 on the latest file: exc names the exception
\* that left it ("" when none did), ts is the timestamp it returned (None:
\* it fell through to line 48)
ReadLastTimestamp(content) ==
    IF ~content.ok THEN [exc |-> "OSError", ts |-> None]
    ELSE IF content.lines = <<>> THEN [exc |-> "StopIteration", ts |-> None]
    ELSE LET last_line == LastNonEmptyRow(Tail(content.lines), <<>>)
         IN  IF last_line = <<>> THEN [exc |-> "", ts |-> None]
             ELSE IF Len(last_line) < 2 THEN [exc |-> "IndexError", ts |-> None]
             ELSE IF ~IsIsoTimestamp(last_line[2])
                  THEN [exc |-> "ValueError", ts |-> None]
             ELSE [exc |-> "", ts |-> fromisoformat(last_line[2])]

\* an except clause that catches the errors of open alone
CatchesOSError(exc) == exc = "OSError"

\* an except clause that catches ValueError alone
CatchesValueError(exc) == exc = "ValueError"

\* except Exception as e: every exception of the try block is caught
Catches(exc) == exc # ""

\* a return of the latest number itself
SameBatchNum(latest_batch_num) == latest_batch_num

\* return latest_batch_num + 1, ...
NextBatchNum(latest_batch_num) == latest_batch_num + 1

\* the timestamp returned from the except branch (line 46)
FallbackTimestamp(clock) == now_minus_one_hour(clock)

\* get_latest_batch_info(output_dir): what it returns, whether it called
\* os.makedirs, whether it printed the warning of line 44, and the exception
\* that left it ("" when it returned)
get_latest_batch_info(exists, fs, clock) ==
    IF ~exists
    THEN [next_batch_num |-> 1, last_timestamp |-> None, makedirs |-> TRUE,
          warning |-> FALSE, exc |-> ""]
    ELSE LET batch_files == {f \in DOMAIN fs : GlobMatches(f)}
             scan == ScanBatchFiles(batch_files, 0, NoFile)
         IN  IF batch_files = {}
             THEN [next_batch_num |-> 1, last_timestamp |-> None,
                   makedirs |-> FALSE, warning |-> FALSE, exc |-> ""]
             ELSE IF scan.latest_file = NoFile
             THEN [next_batch_num |-> NextBatchNum(scan.latest_batch_num),
                   last_timestamp |-> None, makedirs |-> FALSE,
                   warning |-> FALSE, exc |-> ""]
             ELSE LET read == ReadLastTimestamp(fs[scan.latest_file])
                  IN  IF read.exc = ""
                      THEN [next_batch_num |-> NextBatchNum(scan.latest_batch_num),
                            last_timestamp |-> read.ts, makedirs |-> FALSE,
                            warning |-> FALSE, exc |-> ""]
                      ELSE IF Catches(read.exc)
                      THEN [next_batch_num |-> NextBatchNum(scan.latest_batch_num),
                            last_timestamp |-> FallbackTimestamp(clock),
                            makedirs |-> FALSE, warning |-> TRUE, exc |-> ""]
                      ELSE [next_batch_num |-> 0, last_timestamp |-> None,
                            makedirs |-> FALSE, warning |-> FALSE,
                            exc |-> read.exc]

----------------------------------------------------------------------------
(* generate_sensor_data *)

RECURSIVE zfill(_, _)
zfill(s, width) == IF Len(s) >= width THEN s ELSE zfill("0" \o s, width)

\* [f"M{str(i).zfill(3)}" for i in range(1, 11)]
DefaultMachines ==
    [i \in 1..NumDefaultMachines |-> "M" \o zfill(ToString(i), ZFillWidth)]

\* the keys of {machine_id: 0 for machine_id in machines}
Keys(machines) == {machines[k] : k \in 1..Len(machines)}

\* available_machines.pop(0): the machine at the head of the list goes
removeHead(seq, x) == IF seq = <<>> THEN <<>> ELSE Tail(seq)

\* available_machines.remove(machine_id): the first occurrence goes
RECURSIVE remove(_, _)
remove(seq, x) ==
    IF seq = <<>> THEN <<>>
    ELSE IF Head(seq) = x THEN Tail(seq)
    ELSE <<Head(seq)>> \o remove(Tail(seq), x)

\* a sort key's order that puts the latest first
KeyGeq(a, b) == a.timestamp >= b.timestamp

\* the sort key's order: timestamp strings of one fixed width compare as
\* the seconds they show
KeyLeq(a, b) == a.timestamp <= b.timestamp

\* one record put into a sorted list, after the records that do not sort
\* after it (the sort is stable)
RECURSIVE Insert(_, _)
Insert(sorted, r) ==
    IF sorted = <<>> THEN <<r>>
    ELSE IF KeyLeq(Head(sorted), r) THEN <<Head(sorted)>> \o Insert(Tail(sorted), r)
    ELSE <<r>> \o sorted

RECURSIVE SortFrom(_, _)
SortFrom(sorted, rest) ==
    IF rest = <<>> THEN sorted ELSE SortFrom(Insert(sorted, Head(rest)), Tail(rest))

\* data.sort(key=lambda x: x["timestamp"])
SortByTimestamp(data) == SortFrom(<<>>, data)

\* 15 + i//10
MaxIncrement(i) == IncBase + (i \div IncEvery)

\* an advance by as many ticks of the clock as the seconds drawn
AdvanceTicks(current_time, seconds) == current_time + seconds

\* current_time += timedelta(seconds=random.randint(1, 15 + i//10))
Advance(current_time, seconds) == current_time + timedelta(seconds)

normal_ranges ==
    [temperature |-> <<65000, 80000>>,
     vibration |-> <<10, 200>>,
     pressure |-> <<98000, 102000>>]

warning_thresholds ==
    [temperature |-> 85000, vibration |-> 500,
     pressure_high |-> 105000, pressure_low |-> 95000]

critical_thresholds ==
    [temperature |-> 95000, vibration |-> 800,
     pressure_high |-> 110000, pressure_low |-> 92000]

anomaly_types == <<"temperature", "vibration", "pressure">>

\* round(number, ndigits) of a positive number, to the nearest multiple of
\* 10^-ndigits
round(number, ndigits) ==
    LET unit == IF ndigits = 1 THEN 100 ELSE IF ndigits = 2 THEN 10 ELSE 1
    IN  ((number + (unit \div 2)) \div unit) * unit

\* is_anomaly and is_critical (lines 100-101); the second random.random()
\* is called only when is_anomaly is true (critical_drawn), as "and" does
\* not evaluate its right side otherwise
AnomalyFlags(rng, anomaly_probability) ==
    UNION {IF x < anomaly_probability
           THEN {[is_anomaly |-> TRUE, is_critical |-> y < CriticalShare,
                  critical_drawn |-> TRUE] : y \in random(rng)}
           ELSE {[is_anomaly |-> FALSE, is_critical |-> FALSE,
                  critical_drawn |-> FALSE]}
           : x \in random(rng)}

\* the three channels drawn from their normal ranges (lines 104-106)
Baselines(rng) ==
    [temperature : uniform(rng, normal_ranges.temperature[1],
                                normal_ranges.temperature[2]),
     vibration : uniform(rng, normal_ranges.vibration[1],
                              normal_ranges.vibration[2]),
     pressure : uniform(rng, normal_ranges.pressure[1],
                             normal_ranges.pressure[2])]

\* a warning range that reaches the critical threshold
WarningValuesUpToCritical(rng, anomaly_type) ==
    IF anomaly_type = "temperature"
    THEN uniform(rng, warning_thresholds.temperature, critical_thresholds.temperature)
    ELSE IF anomaly_type = "vibration"
    THEN uniform(rng, warning_thresholds.vibration, critical_thresholds.vibration)
    ELSE UNION {IF side < HighSideShare
                THEN uniform(rng, warning_thresholds.pressure_high,
                                  critical_thresholds.pressure_high)
                ELSE uniform(rng, critical_thresholds.pressure_low,
                                  warning_thresholds.pressure_low)
                : side \in random(rng)}

\* the value drawn for the anomalous channel of a warning (lines 123-131)
WarningValues(rng, anomaly_type) ==
    IF anomaly_type = "temperature"
    THEN uniform(rng, warning_thresholds.temperature,
                      critical_thresholds.temperature - 100)
    ELSE IF anomaly_type = "vibration"
    THEN uniform(rng, warning_thresholds.vibration,
                      critical_thresholds.vibration - 10)
    ELSE UNION {IF side < HighSideShare
                THEN uniform(rng, warning_thresholds.pressure_high,
                                  critical_thresholds.pressure_high - 100)
                ELSE uniform(rng, critical_thresholds.pressure_low + 100,
                                  warning_thresholds.pressure_low)
                : side \in random(rng)}

\* critical ranges laid below the thresholds instead of above them
CriticalValuesBelow(rng, anomaly_type) ==
    IF anomaly_type = "temperature"
    THEN uniform(rng, critical_thresholds.temperature - 10000,
                      critical_thresholds.temperature - 100)
    ELSE IF anomaly_type = "vibration"
    THEN uniform(rng, critical_thresholds.vibration - 500,
                      critical_thresholds.vibration - 10)
    ELSE UNION {IF side < HighSideShare
                THEN uniform(rng, critical_thresholds.pressure_high - 5000,
                                  critical_thresholds.pressure_high - 100)
                ELSE uniform(rng, critical_thresholds.pressure_low + 100,
                                  critical_thresholds.pressure_low + 5000)
                : side \in random(rng)}

\* the value drawn for the anomalous channel of a critical reading (lines
\* 112-120)
CriticalValues(rng, anomaly_type) ==
    IF anomaly_type = "temperature"
    THEN uniform(rng, critical_thresholds.temperature,
                      critical_thresholds.temperature + 10000)
    ELSE IF anomaly_type = "vibration"
    THEN uniform(rng, critical_thresholds.vibration,
                      critical_thresholds.vibration + 500)
    ELSE UNION {IF side < HighSideShare
                THEN uniform(rng, critical_thresholds.pressure_high,
                                  critical_thresholds.pressure_high + 5000)
                ELSE uniform(rng, critical_thresholds.pressure_low - 5000,
                                  critical_thresholds.pressure_low)
                : side \in random(rng)}

\* a status that is set in the critical branch alone
StatusCritOnly(is_anomaly, is_critical) == IF is_critical THEN "CRIT" ELSE "AOK"

\* status (lines 103, 111, 122)
Status(is_anomaly, is_critical) ==
    IF ~is_anomaly THEN "AOK" ELSE IF is_critical THEN "CRIT" ELSE "WARN"

\* an if/elif chain whose last branch lost its else: the pressure is set as
\* well whenever the anomaly is not one of vibration
OverrideFallsThrough(baseline, anomaly_type, value) ==
    IF anomaly_type = "temperature"
    THEN [baseline EXCEPT !.temperature = value,
                          !.pressure = critical_thresholds.pressure_high]
    ELSE [baseline EXCEPT ![anomaly_type] = value]

\* the if/elif/else chain on anomaly_type: one channel gets the value
Override(baseline, anomaly_type, value) ==
    [baseline EXCEPT ![anomaly_type] = value]

\* temperature, vibration, pressure and status after lines 100-131, and
\* whether the draw of line 101 was made
Readings(rng, anomaly_probability) ==
    UNION {
        IF ~flags.is_anomaly
        THEN {[channels |-> b, status |-> Status(FALSE, FALSE),
               critical_drawn |-> flags.critical_drawn] : b \in Baselines(rng)}
        ELSE UNION {
            {[channels |-> Override(b, anomaly_types[k], v),
              status |-> Status(TRUE, flags.is_critical),
              critical_drawn |-> flags.critical_drawn] :
                b \in Baselines(rng),
                v \in IF flags.is_critical
                      THEN CriticalValues(rng, anomaly_types[k])
                      ELSE WarningValues(rng, anomaly_types[k])}
            : k \in choice(rng, anomaly_types)}
        : flags \in AnomalyFlags(rng, anomaly_probability)}

\* the record of lines 133-142
Record(machine_id, current_time, reading) ==
    [machine_id |-> machine_id, timestamp |-> strftime(current_time),
     temperature |-> round(reading.channels.temperature, 1),
     vibration |-> round(reading.channels.vibration, 2),
     pressure |-> round(reading.channels.pressure, 1),
     status_code |-> reading.status]

----------------------------------------------------------------------------
(* write_csv *)

\* writer.writeheader(); writer.writerows(data)
CsvLines(data) == <<HeaderRow>> \o [k \in 1..Len(data) |-> RowOf(data[k])]

\* the file after open(filename, "w") and a complete write
WrittenFile(data) == Readable(CsvLines(data))

\* what a write that fails part-way can leave in the file: nothing, the
\* first lines, or the first lines and the start of the next row
PartialFiles(data) ==
    LET full == CsvLines(data)
    IN  {Readable(SubSeq(full, 1, k)) : k \in {0, 1, 2} \cap 0..(Len(full) - 1)}
        \cup (IF Len(full) >= 3
              THEN {Readable(SubSeq(full, 1, 2) \o <<ShortRow>>)} ELSE {})

\* a write that leaves a file that exists as it is (open(filename, "x"))
PutFileIfAbsent(fs, name, content) ==
    [f \in DOMAIN fs \cup {name} |-> IF f \in DOMAIN fs THEN fs[f] ELSE content]

\* open(filename, "w") ... : the directory with the file replaced
PutFile(fs, name, content) ==
    [f \in DOMAIN fs \cup {name} |-> IF f = name THEN content ELSE fs[f]]

----------------------------------------------------------------------------
(* One process: a command-line run, or a direct call of                    *)
(* generate_sensor_data.  pc is the place the process has reached.         *)

NoMachines == [is_none |-> TRUE, list |-> <<>>]
Machines(list) == [is_none |-> FALSE, list |-> list]

Idle ==
    [pc |-> "idle", caller |-> "main", rng |-> "min",
     records_per_machine |-> 0, anomalies |-> DefaultAnomalies,
     next_batch_num |-> 0, last_timestamp |-> None,
     start_timestamp_for_new_batch |-> None,
     num_records_per_machine |-> 0, machines_arg |-> NoMachines,
     anomaly_probability |-> DefaultAnomalies, start_timestamp |-> None,
     machines |-> <<>>, num_total_records |-> 0, current_time |-> 0,
     i |-> 0, machine_record_counts |-> <<>>, available_machines |-> <<>>,
     data |-> <<>>, output_filename |-> NoFile, saved_message |-> FALSE,
     output_file |-> NoFile, warning |-> FALSE, critical_draws |-> 0,
     error |-> ""]

Ended(p) == proc[p].pc \in {"idle", "done", "failed"}

\* an exception handled by a message, the run going on to its end as if
\* the call had returned
LogAndContinue(me, exc) ==
    [me EXCEPT !.pc = "done", !.saved_message = TRUE,
               !.output_file = me.output_filename]

\* an exception that no try statement of the run encloses: it leaves the
\* function and the run, which ends with a traceback and a non-zero status
Raise(me, exc) == [me EXCEPT !.pc = "failed", !.error = exc]

\* a start that never continues from the last timestamp
StartFromClock(rng, last_timestamp, clock) == {now_minus_one_hour(clock)}

\* if last_timestamp: ... else: ... (lines 177-182)
StartTimestamps(rng, last_timestamp, clock) ==
    IF last_timestamp # None
    THEN {last_timestamp + timedelta(g) : g \in randint(rng, GapMin, GapMax)}
    ELSE {now_minus_one_hour(clock)}

\* the wall clock's readings: an hour and some minutes after the origin of
\* time, to the tick
ClockValues == {timedelta(HourSecs + 300) + k : k \in 0..MaxClock}

\* The process starts: the command line is parsed (lines 168-173).
Start(p, args, modes, max_runs) ==
    /\ Ended(p)
    /\ runs < max_runs
    /\ \E a \in args, m \in modes, t \in {c \in ClockValues : c >= now} :
          /\ proc' = [proc EXCEPT ![p] =
                         [Idle EXCEPT !.pc = "main",
                                      !.records_per_machine = a.records_per_machine,
                                      !.anomalies = a.anomalies,
                                      !.rng = m]]
          /\ now' = t
    /\ runs' = runs + 1
    /\ snapshot' = [dirExists |-> dirExists, files |-> files]
    /\ UNCHANGED <<dirExists, files, written, bucket, uploads, cursor,
                   evaluations>>

\* Lines 175-190 up to the call of generate_sensor_data; an exception that
\* leaves get_latest_batch_info ends the run.
Locate(p) ==
    /\ proc[p].pc = "main"
    /\ LET info == get_latest_batch_info(dirExists, files, now)
       IN  /\ dirExists' = (dirExists \/ info.makedirs)
           /\ IF info.exc # ""
              THEN proc' = [proc EXCEPT ![p] = Raise(proc[p], info.exc)]
              ELSE \E st \in StartTimestamps(proc[p].rng, info.last_timestamp, now) :
                 proc' = [proc EXCEPT ![p] =
                     [@ EXCEPT !.pc = "gen_entry",
                               !.next_batch_num = info.next_batch_num,
                               !.last_timestamp = info.last_timestamp,
                               !.warning = info.warning,
                               !.start_timestamp_for_new_batch = st,
                               !.num_records_per_machine = proc[p].records_per_machine,
                               !.machines_arg = NoMachines,
                               !.anomaly_probability = proc[p].anomalies,
                               !.start_timestamp = st]]
    /\ UNCHANGED <<files, now, snapshot, written, runs, bucket, uploads,
                   cursor, evaluations>>

\* os.makedirs(output_dir) of line 11 raises: the run ends, nothing is made.
LocateFail(p) ==
    /\ proc[p].pc = "main"
    /\ ~dirExists
    /\ proc' = [proc EXCEPT ![p] = Raise(proc[p], "makedirs")]
    /\ UNCHANGED <<dirExists, files, now, snapshot, written, runs, bucket,
                   uploads, cursor, evaluations>>

\* A direct call of get_latest_batch_info (lines 9-48) by an idle process.
CallLocate(p) ==
    /\ proc[p].pc = "idle"
    /\ LET info == get_latest_batch_info(dirExists, files, now)
       IN  /\ dirExists' = (dirExists \/ info.makedirs)
           /\ proc' = [proc EXCEPT ![p] =
                  IF info.exc # "" THEN Raise([@ EXCEPT !.caller = "direct"], info.exc)
                  ELSE [@ EXCEPT !.pc = "returned", !.caller = "direct",
                                 !.next_batch_num = info.next_batch_num,
                                 !.last_timestamp = info.last_timestamp,
                                 !.warning = info.warning]]
    /\ UNCHANGED <<files, now, snapshot, written, runs, bucket, uploads,
                   cursor, evaluations>>

\* The wall clock moves on.
Tick ==
    /\ \E t \in {c \in ClockValues : c > now} : now' = t
    /\ UNCHANGED <<dirExists, files, proc, snapshot, written, runs, bucket,
                   uploads, cursor, evaluations>>

\* generate_sensor_data, lines 57-90.
GenEnter(p) ==
    /\ proc[p].pc = "gen_entry"
    /\ LET me == proc[p]
           machines == IF me.machines_arg.is_none THEN DefaultMachines
                       ELSE me.machines_arg.list
       IN  proc' = [proc EXCEPT ![p] =
               [@ EXCEPT !.pc = "gen_loop",
                         !.machines = machines,
                         !.num_total_records = me.num_records_per_machine * Len(machines),
                         !.current_time = IF me.start_timestamp = None
                                          THEN now_minus_one_hour(now)
                                          ELSE me.start_timestamp,
                         !.data = <<>>,
                         !.machine_record_counts = [m \in Keys(machines) |-> 0],
                         !.available_machines = machines,
                         !.critical_draws = 0,
                         !.i = 0]]
    /\ UNCHANGED <<dirExists, files, now, snapshot, written, runs, bucket,
                   uploads, cursor, evaluations>>

\* a quota test that takes a machine off the list after its first record
QuotaAfterFirst(count, num_records_per_machine) == count >= 1

\* a quota test that lets a machine pass its quota by one
QuotaExceeded(count, num_records_per_machine) == count > num_records_per_machine

\* the quota test of lines 145-147
QuotaReached(count, num_records_per_machine) == count >= num_records_per_machine

\* One iteration of the loop, lines 92-147.
GenStep(p) ==
    /\ proc[p].pc = "gen_loop"
    /\ proc[p].i < proc[p].num_total_records
    /\ proc[p].available_machines # <<>>
    /\ LET me == proc[p]
       IN  \E k \in choice(me.rng, me.available_machines),
              seconds \in randint(me.rng, 1, MaxIncrement(me.i)),
              reading \in Readings(me.rng, me.anomaly_probability) :
              LET machine_id == me.available_machines[k]
                  current_time == Advance(me.current_time, seconds)
                  count == me.machine_record_counts[machine_id] + 1
              IN  proc' = [proc EXCEPT ![p] =
                      [@ EXCEPT !.current_time = current_time,
                                !.data = Append(@, Record(machine_id, current_time,
                                                         reading)),
                                !.machine_record_counts =
                                    [@ EXCEPT ![machine_id] = count],
                                !.available_machines =
                                    IF QuotaReached(count, me.num_records_per_machine)
                                    THEN remove(@, machine_id) ELSE @,
                                !.critical_draws =
                                    IF reading.critical_drawn THEN @ + 1 ELSE @,
                                !.i = @ + 1]]
    /\ UNCHANGED <<dirExists, files, now, snapshot, written, runs, bucket,
                   uploads, cursor, evaluations>>

\* where generate_sensor_data returns to
AfterGenerate(caller) == IF caller = "main" THEN "write" ELSE "returned"

\* lines 149-151, and line 192 in the command-line run
Return(p) ==
    proc' = [proc EXCEPT ![p] =
        [@ EXCEPT !.pc = AfterGenerate(proc[p].caller),
                  !.data = SortByTimestamp(@),
                  !.output_filename = IF proc[p].caller = "main"
                                      THEN BatchFileName(proc[p].next_batch_num)
                                      ELSE NoFile]]

\* if not available_machines: break (lines 93-94), then the sort and return.
GenBreak(p) ==
    /\ proc[p].pc = "gen_loop"
    /\ proc[p].i < proc[p].num_total_records
    /\ proc[p].available_machines = <<>>
    /\ Return(p)
    /\ UNCHANGED <<dirExists, files, now, snapshot, written, runs, bucket,
                   uploads, cursor, evaluations>>

\* The range is exhausted: the sort and return (lines 149-151).
GenReturn(p) ==
    /\ proc[p].pc = "gen_loop"
    /\ ~(proc[p].i < proc[p].num_total_records)
    /\ Return(p)
    /\ UNCHANGED <<dirExists, files, now, snapshot, written, runs, bucket,
                   uploads, cursor, evaluations>>

\* write_csv runs to its end (lines 153-165, from line 193).
Write(p) ==
    /\ proc[p].pc = "write"
    /\ dirExists' = TRUE
    /\ files' = PutFile(files, proc[p].output_filename, WrittenFile(proc[p].data))
    /\ written' = Append(written, [num |-> proc[p].next_batch_num,
                                   data |-> proc[p].data, by |-> p,
                                   complete |-> TRUE])
    /\ proc' = [proc EXCEPT ![p] =
                   [@ EXCEPT !.pc = "done", !.saved_message = TRUE,
                             !.output_file = proc[p].output_filename]]
    /\ UNCHANGED <<now, snapshot, runs, bucket, uploads, cursor, evaluations>>

\* write_csv raises: os.makedirs or open fails and the directory is as it
\* was, or the write fails after open has created or truncated the file.
WriteFail(p) ==
    /\ proc[p].pc = "write"
    /\ \/ UNCHANGED <<dirExists, files, written>>
       \/ /\ dirExists' = TRUE
          /\ \E partial \in PartialFiles(proc[p].data) :
                files' = PutFile(files, proc[p].output_filename, partial)
          /\ written' = Append(written, [num |-> proc[p].next_batch_num,
                                         data |-> proc[p].data, by |-> p,
                                         complete |-> FALSE])
    /\ proc' = [proc EXCEPT ![p] = Raise(proc[p], "write")]
    /\ UNCHANGED <<now, snapshot, runs, bucket, uploads, cursor, evaluations>>

\* A direct call of write_csv(data, filename) (lines 153-165) by an idle
\* process; Write or WriteFail is the rest of the call.
CallWrite(p, data_args, filename_args) ==
    /\ proc[p].pc = "idle"
    /\ runs < 1
    /\ \E data \in data_args, filename \in filename_args :
          proc' = [proc EXCEPT ![p] =
                      [@ EXCEPT !.pc = "write", !.caller = "direct",
                                !.data = data, !.output_filename = filename]]
    /\ runs' = runs + 1
    /\ snapshot' = [dirExists |-> dirExists, files |-> files]
    /\ UNCHANGED <<dirExists, files, now, written, bucket, uploads, cursor,
                   evaluations>>

----------------------------------------------------------------------------
(* setup/03_upload_file.py: the upload tool.  The bucket is a function     *)
(* from object keys to the contents uploaded; uploads is the list of the   *)
(* uploads tried.                                                          *)

\* DEFAULT_FILE_PATH, as a name in the data directory
DEFAULT_FILE_PATH == BatchFileName(1)

CustomName == "custom.csv"

\* a file whose name has no dot
NoDotName == "README"

\* a custom name with a comma in it
CommaName == "a,b.csv"

\* if batch_num > highest_batch_num
HighestBatchNumGreater(batch_num, highest_batch_num) == batch_num > highest_batch_num

\* for f in batch_files: ... (lines 24-33), in the order the glob lists them
RECURSIVE ScanHighest(_, _, _)
ScanHighest(batch_files, highest_batch_num, latest_file) ==
    IF batch_files = {}
    THEN [highest_batch_num |-> highest_batch_num, latest_file |-> latest_file]
    ELSE LET f == CHOOSE x \in batch_files : TRUE
             rest == batch_files \ {f}
         IN  IF RegexMatches(f) /\ HighestBatchNumGreater(RegexNum(f), highest_batch_num)
             THEN ScanHighest(rest, RegexNum(f), f)
             ELSE ScanHighest(rest, highest_batch_num, latest_file)

\* find_latest_batch_file(data_dir): the file found, NoFile for None
find_latest_batch_file(exists, fs) ==
    IF ~exists THEN NoFile
    ELSE LET batch_files == {f \in DOMAIN fs : GlobMatches(f)}
         IN  IF batch_files = {} THEN NoFile
             ELSE ScanHighest(batch_files, 0, NoFile).latest_file

\* base_filename.split('.'), for the names of the model
SplitAtDots ==
    [name \in BatchFileNames \cup {GlobOnlyName, OtherName, NoDotName} |->
        IF name \in BatchFileNames
        THEN <<"sensor_data_batch_" \o ToString(NumberShown[name]), "csv">>
        ELSE IF name = GlobOnlyName THEN <<"sensor_data_batch_old", "csv">>
        ELSE IF name = OtherName THEN <<"notes", "txt">>
        ELSE <<"README">>]

\* int(time.time())
EpochSeconds(clock) == clock \div TicksPerSec

\* a target name with the timestamp after the whole file name
TargetFilenameAppended(file_path, custom_filename, clock) ==
    IF custom_filename # NoFile
    THEN "raw_data/" \o custom_filename
    ELSE "raw_data/" \o file_path \o "_" \o ToString(EpochSeconds(clock))

\* target_filename (lines 53-65)
TargetFilename(file_path, custom_filename, clock) ==
    IF custom_filename # NoFile
    THEN "raw_data/" \o custom_filename
    ELSE LET filename_parts == SplitAtDots[file_path]
         IN  IF Len(filename_parts) > 1
             THEN "raw_data/" \o filename_parts[1] \o "_"
                      \o ToString(EpochSeconds(clock)) \o "." \o filename_parts[2]
             ELSE "raw_data/" \o file_path \o "_" \o ToString(EpochSeconds(clock))

\* the local file is there to be read
CanRead(exists, fs, name) == exists /\ name \in DOMAIN fs /\ fs[name].ok

\* s3.upload_file(file_path, S3_BUCKET_NAME, target_filename): the object
\* is put, one under the same key is replaced
PutObject(objects, key, content) ==
    [k \in DOMAIN objects \cup {key} |-> IF k = key THEN content ELSE objects[k]]

\* One try of s3.upload_file inside try/except: the object is put, or the
\* call raises (no file to read, no service) and the bucket is as it was.
\* The list of uploads keeps the key targeted, the custom name asked for
\* and the time of the try.
TryUpload(script, file_path, custom_filename, content, readable, key) ==
    LET tried == [script |-> script, file_path |-> file_path,
                  custom_filename |-> custom_filename, key |-> key,
                  ok |-> FALSE, at |-> now, written_before |-> Len(written)]
    IN  \/ /\ readable
           /\ bucket' = PutObject(bucket, key, content)
           /\ uploads' = Append(uploads, [tried EXCEPT !.ok = TRUE])
        \/ /\ bucket' = bucket
           /\ uploads' = Append(uploads, tried)

\* One run of the upload tool (lines 96-117): --latest or --file, --name.
UploadFile(latest_args, file_args, name_args) ==
    /\ Len(uploads) < MaxUploads
    /\ \E latest \in latest_args, file \in file_args, name \in name_args :
          LET file_to_upload == IF latest
                                THEN find_latest_batch_file(dirExists, files)
                                ELSE file
          IN  IF file_to_upload = NoFile
              THEN /\ bucket' = bucket
                   /\ uploads' = Append(uploads,
                          [script |-> "03_upload_file", file_path |-> NoFile,
                           custom_filename |-> name, key |-> NoFile,
                           ok |-> FALSE, at |-> now,
                           written_before |-> Len(written)])
              ELSE TryUpload("03_upload_file", file_to_upload, name,
                             IF CanRead(dirExists, files, file_to_upload)
                             THEN files[file_to_upload] ELSE Unreadable,
                             CanRead(dirExists, files, file_to_upload),
                             TargetFilename(file_to_upload, name, now))
    /\ UNCHANGED <<dirExists, files, now, proc, snapshot, written, runs,
                   cursor, evaluations>>

\* One run of setup/01_configure_s3.py or setup/03_upload_initial_data.py:
\* data/sensor_data_batch_1.csv goes to raw_data/sensor_data_batch_1.csv.
UploadInitialData ==
    /\ Len(uploads) < MaxUploads
    /\ \E script \in {"01_configure_s3", "03_upload_initial_data"} :
          TryUpload(script, BatchFileName(1), NoFile,
                    IF CanRead(dirExists, files, BatchFileName(1))
                    THEN files[BatchFileName(1)] ELSE Unreadable,
                    CanRead(dirExists, files, BatchFileName(1)),
                    "raw_data/" \o BatchFileName(1))
    /\ UNCHANGED <<dirExists, files, now, proc, snapshot, written, runs,
                   cursor, evaluations>>

----------------------------------------------------------------------------
(* setup/06_demo_critical_data.py.  The generator numpy seeds with 42 is   *)
(* not modelled: a draw of np.random.normal is its mean, or two standard   *)
(* deviations below or above it, one way for all the draws of a run.  A    *)
(* timestamp "%Y-%m-%d %H:%M:%S" is represented by its count of seconds.   *)

critical_machines == <<"MACHINE_001", "MACHINE_003", "MACHINE_007">>

\* np.random.normal(loc, scale)
normal(rng, loc, scale) ==
    IF rng = "min" THEN loc - (2 * scale)
    ELSE IF rng = "max" THEN loc + (2 * scale) ELSE loc

\* pd.date_range(start=start_time, end=end_time, freq='5min')
date_range(start, end, freq) ==
    [k \in 1..(((end - start) \div freq) + 1) |-> start + ((k - 1) * freq)]

\* status_code (lines 49-54), progress being i / n
DemoStatus(i, n) ==
    IF i * 10 < 3 * n THEN "OK"
    ELSE IF i * 10 < 7 * n THEN "WARNING" ELSE "CRITICAL"

\* the record of lines 35-63 for reading i of n
DemoRecord(rng, machine_id, i, n, timestamp) ==
    [machine_id |-> machine_id,
     timestamp |-> strftime(timestamp),
     temperature |-> round(normal(rng, 72000 + ((25000 * i) \div n), 2000), 2),
     vibration |-> round(normal(rng, 350 + ((600 * i) \div n), 50), 3),
     pressure |-> round(normal(rng, 120000, 10000), 2),
     status_code |-> DemoStatus(i, n)]

\* generate_critical_sensor_data(): the rows of the data frame
generate_critical_sensor_data(rng, clock) ==
    LET timestamps == date_range(clock - timedelta(HourSecs), clock,
                                 timedelta(FiveMinSecs))
        n == Len(timestamps)
    IN  [k \in 1..(Len(critical_machines) * n) |->
            DemoRecord(rng, critical_machines[((k - 1) \div n) + 1],
                       (k - 1) % n, n, timestamps[((k - 1) % n) + 1])]

\* main(): the data frame is written to a temporary CSV, sent to
\* raw_data/critical_sensor_data.csv and the temporary file removed.
DemoCriticalData ==
    /\ Len(uploads) < MaxUploads
    /\ \E rng \in {"min", "max", "free"} :
          TryUpload("06_demo_critical_data", "critical_sensor_data.csv", NoFile,
                    WrittenFile(generate_critical_sensor_data(rng, now)), TRUE,
                    "raw_data/critical_sensor_data.csv")
    /\ UNCHANGED <<dirExists, files, now, proc, snapshot, written, runs,
                   cursor, evaluations>>

----------------------------------------------------------------------------
(* pipeline/assets.py: s3_file_sensor, and the notification filter of      *)
(* setup/02_configure_s3_bucket.py.  Keys and the cursor are strings; the  *)
(* cursor that was never set (None) is the empty string, which the sensor  *)
(* treats as it treats None.  evaluations is the list of the evaluations   *)
(* of the sensor.                                                          *)

NoCursor == ""

\* s.startswith(prefix)
StartsWith(s, prefix) ==
    Len(s) >= Len(prefix) /\ SubSeq(s, 1, Len(prefix)) = prefix

\* s.endswith(suffix)
EndsWith(s, suffix) ==
    Len(s) >= Len(suffix) /\ SubSeq(s, Len(s) - Len(suffix) + 1, Len(s)) = suffix

\* the places of sep (one character) in s
Places(s, sep) == {i \in 1..Len(s) : SubSeq(s, i, i) = sep}

\* s.split(sep), as a set: the pieces of s between the places of sep
split(s, sep) ==
    LET cuts == {0} \cup Places(s, sep) \cup {Len(s) + 1}
    IN  {SubSeq(s, a + 1, b - 1) :
            <<a, b>> \in {c \in cuts \X cuts :
                             /\ c[1] < c[2]
                             /\ \A i \in cuts : ~(c[1] < i /\ i < c[2])}}

\* sep.join(strings): the strings it may give, one for each order in
\* which the set may be iterated
RECURSIVE join(_, _)
join(sep, strings) ==
    IF strings = {} THEN {""}
    ELSE UNION {IF strings = {first} THEN {first}
                ELSE {first \o sep \o rest : rest \in join(sep, strings \ {first})}
                : first \in strings}

\* the FilterRules of the queue configuration: the keys whose creation is
\* notified to the queue
NotificationFilter(key) == StartsWith(key, "raw_data/") /\ EndsWith(key, ".csv")

\* list_objects_v2(Bucket=bucket, Prefix=prefix): the keys of 'Contents'
ListObjects(objects, prefix) == {key \in DOMAIN objects : StartsWith(key, prefix)}

\* current_files (lines 72-77)
CurrentFiles(objects) ==
    {key \in ListObjects(objects, "raw_data/") : EndsWith(key, ".csv")}

\* last_processed (lines 64-65)
LastProcessed(context_cursor) ==
    IF context_cursor # NoCursor THEN split(context_cursor, ",") ELSE {}

\* a cursor that keeps the new files alone
UpdatedCursorNewOnly(current_files, new_files) == join(",", new_files)

\* ",".join(current_files) (line 82)
UpdatedCursor(current_files, new_files) == join(",", current_files)

\* a cursor updated by every evaluation
CursorAlwaysUpdated(context_cursor, current_files, new_files) ==
    UpdatedCursor(current_files, new_files)

\* the cursor after lines 81-90
CursorAfter(context_cursor, current_files, new_files) ==
    IF new_files # {} THEN UpdatedCursor(current_files, new_files)
    ELSE {context_cursor}

\* One evaluation of s3_file_sensor (lines 56-90): run_request tells that a
\* RunRequest was returned and not None, new_files are the keys its run
\* key is made of.
Evaluate ==
    /\ Len(evaluations) < MaxEvals
    /\ LET last_processed == LastProcessed(cursor)
           current_files == CurrentFiles(bucket)
           new_files == current_files \ last_processed
       IN  /\ cursor' \in CursorAfter(cursor, current_files, new_files)
           /\ evaluations' = Append(evaluations,
                  [cursor |-> cursor, listed |-> DOMAIN bucket,
                   last_processed |-> last_processed,
                   new_files |-> new_files, run_request |-> new_files # {},
                   cursor_after |-> cursor'])
    /\ UNCHANGED <<dirExists, files, now, proc, snapshot, written, runs,
                   bucket, uploads>>

\* An object of the bucket is deleted.
DeleteObject ==
    /\ \E key \in DOMAIN bucket :
          bucket' = [k \in DOMAIN bucket \ {key} |-> bucket[k]]
    /\ UNCHANGED <<dirExists, files, now, proc, snapshot, written, runs,
                   uploads, cursor, evaluations>>

----------------------------------------------------------------------------
(* The directories a run may find *)

OldRow(seconds) == <<"M001", seconds, 72500, 110, 100000, "AOK">>

\* what the highest-numbered batch file may hold
LatestContents ==
    {Unreadable,
     Readable(<<>>),
     Readable(<<HeaderRow>>),
     Readable(<<HeaderRow, BlankRow>>),
     Readable(<<HeaderRow, OldRow(200)>>),
     Readable(<<HeaderRow, OldRow(200), OldRow(400)>>),
     Readable(<<HeaderRow, OldRow(400), OldRow(200)>>),
     Readable(<<HeaderRow, OldRow(400), BlankRow>>),
     Readable(<<HeaderRow, OldRow(400), ShortRow>>),
     Readable(<<HeaderRow, OldRow(400),
                <<"M001", NotATimestamp, 72500, 110, 100000, "AOK">>>>)}

\* what any other file holds: a well-formed file of one row
OtherContent(name) ==
    IF RegexMatches(name)
    THEN Readable(<<HeaderRow, OldRow(500 + RegexNum(name))>>)
    ELSE Readable(<<HeaderRow, OldRow(600)>>)

FoundNames ==
    {OtherName, GlobOnlyName} \cup {BatchFileName(n) : n \in {0, 1, 2, 3, 10}}

\* the batch numbers of a set of names: N >= 1 (section 6 of the
\* specification: N is a positive integer)
BatchNumsOf(names) == {RegexNum(f) : f \in {g \in names : RegexMatches(g)}} \ {0}

Max(S) == CHOOSE x \in S : \A y \in S : y <= x

\* the highest batch number of a set of names, 0 when it holds no batch
HighestNum(names) == IF BatchNumsOf(names) = {} THEN 0 ELSE Max(BatchNumsOf(names))

\* the directories: any subset of the names, the highest batch with any of
\* the contents above
FoundDirs ==
    UNION {
        IF BatchNumsOf(names) = {}
        THEN {[f \in names |-> OtherContent(f)]}
        ELSE {[f \in names |-> IF f = BatchFileName(HighestNum(names))
                               THEN c ELSE OtherContent(f)] : c \in LatestContents}
        : names \in SUBSET FoundNames}

EmptyDir == [f \in {} |-> Unreadable]

EmptyBucket == [key \in {} |-> Unreadable]

InitCommon ==
    /\ now \in ClockValues
    /\ proc = [p \in Procs |-> Idle]
    /\ snapshot = [dirExists |-> dirExists, files |-> files]
    /\ written = <<>>
    /\ runs = 0
    /\ bucket = EmptyBucket
    /\ uploads = <<>>
    /\ cursor = NoCursor
    /\ evaluations = <<>>

----------------------------------------------------------------------------
(* SpecDir: one command-line run against any directory *)

\* the arguments parsed from a command line
Args(records, anomalies) == [records_per_machine : records, anomalies : anomalies]

RunArgs == Args(-1..MaxR, {DefaultAnomalies})

InitDir ==
    /\ \/ dirExists = FALSE /\ files = EmptyDir
       \/ dirExists = TRUE /\ files \in FoundDirs
    /\ InitCommon

NextDir ==
    \/ Start(1, RunArgs, {"min", "max"}, 1)
    \/ Locate(1)
    \/ LocateFail(1)
    \/ GenEnter(1)
    \/ GenStep(1)
    \/ GenReturn(1)
    \/ Write(1)
    \/ WriteFail(1)

SpecDir == InitDir /\ [][NextDir]_vars

----------------------------------------------------------------------------
(* SpecRuns: command-line runs, one after the other, from an absent or an  *)
(* empty directory *)

InitRuns ==
    /\ dirExists \in BOOLEAN
    /\ files = EmptyDir
    /\ InitCommon

NextRuns ==
    \/ Start(1, Args({-1, 0, 1}, {DefaultAnomalies}), {"min", "max"}, MaxRuns)
    \/ Locate(1)
    \/ LocateFail(1)
    \/ GenEnter(1)
    \/ GenStep(1)
    \/ GenReturn(1)
    \/ Write(1)
    \/ WriteFail(1)

SpecRuns == InitRuns /\ [][NextRuns]_vars

----------------------------------------------------------------------------
(* SpecArgs: one command-line run with any arguments argparse accepts,     *)
(* from an absent or an empty directory *)

\* --anomalies: values below, in and above [0, 1]
AnomaliesArgs == {-500, 0, DefaultAnomalies, 1000, 1500}

NextArgs ==
    \/ Start(1, Args(-1..MaxR, AnomaliesArgs), {"min", "max"}, 1)
    \/ Locate(1)
    \/ LocateFail(1)
    \/ GenEnter(1)
    \/ GenStep(1)
    \/ GenReturn(1)
    \/ Write(1)
    \/ WriteFail(1)

SpecArgs == InitRuns /\ [][NextArgs]_vars

----------------------------------------------------------------------------
(* SpecRecover: direct calls of get_latest_batch_info on an existing       *)
(* directory, at any times *)

InitRecover ==
    /\ dirExists = TRUE
    /\ files \in FoundDirs
    /\ InitCommon

NextRecover ==
    \/ \E p \in Procs : CallLocate(p)
    \/ Tick

SpecRecover == InitRecover /\ [][NextRecover]_vars

----------------------------------------------------------------------------
(* SpecUpload: up to two command-line runs that succeed, against any       *)
(* directory, and runs of the upload tool with --latest between them *)

\* the highest-numbered batch file found is unreadable, or one row long
InitUpload ==
    /\ \/ dirExists = FALSE /\ files = EmptyDir
       \/ /\ dirExists = TRUE
          /\ files \in {d \in FoundDirs :
                  \A f \in DOMAIN d :
                      d[f] \in {Unreadable, OtherContent(f),
                                Readable(<<HeaderRow, OldRow(200)>>)}}
    /\ InitCommon

NextUpload ==
    \/ Start(1, Args({1}, {DefaultAnomalies}), {"min"}, 2)
    \/ Locate(1)
    \/ GenEnter(1)
    \/ GenStep(1)
    \/ GenReturn(1)
    \/ Write(1)
    \/ Ended(1) /\ UploadFile({TRUE}, {DEFAULT_FILE_PATH}, {NoFile})

SpecUpload == InitUpload /\ [][NextUpload]_vars

----------------------------------------------------------------------------
(* SpecIngest: a command-line run that succeeds, from an absent or an      *)
(* empty directory, and the scripts that send files to the bucket *)

NextIngest ==
    \/ Start(1, Args({1}, {DefaultAnomalies, 1000}), {"min", "max"}, 1)
    \/ Locate(1)
    \/ GenEnter(1)
    \/ GenStep(1)
    \/ GenReturn(1)
    \/ Write(1)
    \/ UploadFile(BOOLEAN, {DEFAULT_FILE_PATH}, {NoFile, CustomName})
    \/ UploadInitialData
    \/ DemoCriticalData

SpecIngest == InitRuns /\ [][NextIngest]_vars

----------------------------------------------------------------------------
(* SpecKeys: runs of the upload tool with any of its arguments, against    *)
(* any directory, at any times *)

\* --file: batch files, a file of another kind and one with no dot in its
\* name, some of them not in the directory
FileArgs ==
    {DEFAULT_FILE_PATH, BatchFileName(10), GlobOnlyName, OtherName, NoDotName}

\* the data directories of the runs
KeysDirs ==
    {EmptyDir,
     [f \in {BatchFileName(1), OtherName} |-> OtherContent(f)],
     [f \in {BatchFileName(3), BatchFileName(10), GlobOnlyName, NoDotName} |->
         OtherContent(f)]}

InitKeys ==
    /\ \/ dirExists = FALSE /\ files = EmptyDir
       \/ dirExists = TRUE /\ files \in KeysDirs
    /\ InitCommon

NextKeys ==
    \/ UploadFile(BOOLEAN, FileArgs, {NoFile, CustomName})
    \/ Tick

SpecKeys == InitKeys /\ [][NextKeys]_vars

----------------------------------------------------------------------------
(* SpecSensor: uploads of the upload tool, deletions of objects and        *)
(* evaluations of s3_file_sensor in any order; the bucket is empty at      *)
(* first, or holds objects put before the sensor was started *)

\* the data directory: batch 1 and a file of another kind
SensorDir ==
    [f \in {BatchFileName(1), OtherName} |-> OtherContent(f)]

\* objects put before the sensor was started, one of them outside raw_data/
EarlierObjects ==
    [key \in {"archive/old.csv", "raw_data/sensor_data_batch_1.csv"} |->
        OtherContent(BatchFileName(1))]

InitSensor ==
    /\ dirExists = TRUE
    /\ files = SensorDir
    /\ now = timedelta(HourSecs + 300)
    /\ proc = [p \in Procs |-> Idle]
    /\ snapshot = [dirExists |-> dirExists, files |-> files]
    /\ written = <<>>
    /\ runs = 0
    /\ bucket \in {EmptyBucket, EarlierObjects}
    /\ uploads = <<>>
    /\ cursor = NoCursor
    /\ evaluations = <<>>

NextSensor ==
    \/ UploadFile({FALSE}, {DEFAULT_FILE_PATH}, {NoFile, CustomName, CommaName})
    \/ UploadFile({FALSE}, {OtherName}, {NoFile})
    \/ DeleteObject
    \/ Evaluate

SpecSensor == InitSensor /\ [][NextSensor]_vars

----------------------------------------------------------------------------
(* SpecRace: two command-line runs on one directory, their steps in any    *)
(* order *)

InitRace ==
    /\ dirExists = TRUE
    /\ files \in {EmptyDir,
                  [f \in {BatchFileName(1)} |->
                      Readable(<<HeaderRow, OldRow(200)>>)]}
    /\ InitCommon

NextRace ==
    \E p \in Procs :
        \/ Start(p, Args({1}, {DefaultAnomalies}), {"min", "max"}, 2)
        \/ Locate(p)
        \/ GenEnter(p)
        \/ GenStep(p)
        \/ GenReturn(p)
        \/ Write(p)

SpecRace == InitRace /\ [][NextRace]_vars

----------------------------------------------------------------------------
(* SpecGen: one call of generate_sensor_data with any arguments *)

\* the machine lists passed: of distinct IDs, and one that repeats an ID
MachineLists ==
    {<<>>, <<"M001">>, <<"M001", "M002">>, <<"M007", "M002">>,
     <<"M001", "M002", "M003">>, <<"M001", "M001">>}

\* machines, records per machine and random mode of the calls
GenCalls ==
    {[machines_arg |-> NoMachines, num |-> r, rng |-> m] :
        r \in -1..MaxGenR, m \in {"min", "max"}}
    \cup {c \in [machines_arg : {Machines(l) : l \in MachineLists},
                 num : -1..MaxTotal, rng : {"free"}] :
            c.num * Len(c.machines_arg.list) <= MaxTotal}

InitGen ==
    /\ dirExists = FALSE
    /\ files = EmptyDir
    /\ now \in ClockValues
    /\ snapshot = [dirExists |-> dirExists, files |-> files]
    /\ written = <<>>
    /\ runs = 0
    /\ bucket = EmptyBucket
    /\ uploads = <<>>
    /\ cursor = NoCursor
    /\ evaluations = <<>>
    /\ \E c \in GenCalls, st \in {None, timedelta(1000) + 1} :
          proc = [p \in Procs |->
                    IF p = 1
                    THEN [Idle EXCEPT !.pc = "gen_entry", !.caller = "direct",
                                      !.rng = c.rng,
                                      !.num_records_per_machine = c.num,
                                      !.machines_arg = c.machines_arg,
                                      !.start_timestamp = st]
                    ELSE Idle]

NextGen ==
    \/ GenEnter(1)
    \/ GenStep(1)
    \/ GenBreak(1)
    \/ GenReturn(1)

SpecGen == InitGen /\ [][NextGen]_vars

----------------------------------------------------------------------------
(* SpecReadings: one call of generate_sensor_data for one machine, every   *)
(* draw that makes a reading free *)

\* the anomaly probabilities passed: none, the default, certainty, and
\* values below 0 and above 1
ReadingCalls ==
    [num : 0..MaxReadings, anomaly_probability : AnomaliesArgs]

InitReadings ==
    /\ dirExists = FALSE
    /\ files = EmptyDir
    /\ now \in ClockValues
    /\ snapshot = [dirExists |-> dirExists, files |-> files]
    /\ written = <<>>
    /\ runs = 0
    /\ bucket = EmptyBucket
    /\ uploads = <<>>
    /\ cursor = NoCursor
    /\ evaluations = <<>>
    /\ \E c \in ReadingCalls :
          proc = [p \in Procs |->
                    IF p = 1
                    THEN [Idle EXCEPT !.pc = "gen_entry", !.caller = "direct",
                                      !.rng = "wide",
                                      !.num_records_per_machine = c.num,
                                      !.machines_arg = Machines(<<"M001">>),
                                      !.anomaly_probability = c.anomaly_probability,
                                      !.start_timestamp = timedelta(1000) + 1]
                    ELSE Idle]

NextReadings ==
    \/ GenEnter(1)
    \/ GenStep(1)
    \/ GenReturn(1)

SpecReadings == InitReadings /\ [][NextReadings]_vars

----------------------------------------------------------------------------
(* SpecWrite: one direct call of write_csv with any list of records, in    *)
(* any order, the directory absent, empty or holding the file already *)

\* a record as generate_sensor_data makes them
WriteRecord(machine_id, seconds, status) ==
    [machine_id |-> machine_id, timestamp |-> seconds, temperature |-> 72500,
     vibration |-> 110, pressure |-> 100000, status_code |-> status]

WriteRecords ==
    {WriteRecord("M002", 400, "AOK"), WriteRecord("M001", 200, "WARN"),
     WriteRecord("M001", 400, "CRIT")}

\* the lists of at most n members of S
SeqsUpTo(S, n) == UNION {[1..k -> S] : k \in 0..n}

InitWrite ==
    /\ \/ dirExists = FALSE /\ files = EmptyDir
       \/ /\ dirExists = TRUE
          /\ files \in {EmptyDir,
                        [f \in {BatchFileName(1)} |->
                            Readable(<<HeaderRow, OldRow(200), OldRow(400)>>)]}
    /\ InitCommon

NextWrite ==
    \/ CallWrite(1, SeqsUpTo(WriteRecords, MaxRows),
                 {BatchFileName(1), BatchFileName(2)})
    \/ Write(1)
    \/ WriteFail(1)

SpecWrite == InitWrite /\ [][NextWrite]_vars

----------------------------------------------------------------------------
(* Claims about generate_sensor_data, under SpecGen *)

Returned(p) == proc[p].pc = "returned"

Distinct(list) == Cardinality(Keys(list)) = Len(list)

CountOf(data, machine_id) ==
    Cardinality({k \in 1..Len(data) : data[k].machine_id = machine_id})

\* C1: for R >= 1 and M distinct machine IDs the batch returned holds R*M
\* records, R for each machine ID of the set and none for any other ID; the
\* default machine set is the ten IDs M001..M010.
C1_BatchShape ==
    LET me == proc[1]
        R == me.num_records_per_machine
    IN  /\ (me.pc # "gen_entry" /\ me.caller = "direct" /\ me.machines_arg.is_none)
              => me.machines = <<"M001", "M002", "M003", "M004", "M005",
                                 "M006", "M007", "M008", "M009", "M010">>
        /\ (Returned(1) /\ R >= 1 /\ Distinct(me.machines))
              => /\ Len(me.data) = R * Len(me.machines)
                 /\ \A m \in Keys(me.machines) : CountOf(me.data, m) = R
                 /\ \A k \in 1..Len(me.data) :
                       me.data[k].machine_id \in Keys(me.machines)

C1_Witness ==
    /\ Returned(1)
    /\ proc[1].num_records_per_machine = 2
    /\ proc[1].machines = <<"M001", "M002", "M003">>
    /\ Len(proc[1].data) = 6

\* C10: in every batch generate_sensor_data returns, the timestamp column
\* does not decrease from a row to the next.
C10_SortedByTimestamp ==
    Returned(1) =>
        \A k \in 1..(Len(proc[1].data) - 1) :
            proc[1].data[k].timestamp <= proc[1].data[k + 1].timestamp

C10_Witness ==
    /\ Returned(1)
    /\ Len(proc[1].data) >= 3
    /\ proc[1].data[1].timestamp < proc[1].data[3].timestamp

\* the call is at the test of the loop (line 92), before an iteration or
\* after the last one
AtLoopStart == proc[1].caller = "direct" /\ proc[1].pc = "gen_loop"

\* C22: at the start of every iteration, for distinct machine IDs and
\* R >= 1, every machine has at most R records (its counter being the number
\* of its records), and it is in the available list exactly when it has
\* fewer than R; so a machine that has R records is never drawn again.
C22_QuotaInvariant ==
    LET me == proc[1]
        R == me.num_records_per_machine
    IN  (AtLoopStart /\ R >= 1 /\ Distinct(me.machines)) =>
            /\ Distinct(me.available_machines)
            /\ Keys(me.available_machines) \subseteq Keys(me.machines)
            /\ \A m \in Keys(me.machines) :
                   /\ me.machine_record_counts[m] = CountOf(me.data, m)
                   /\ CountOf(me.data, m) <= R
                   /\ (m \in Keys(me.available_machines)) <=> (CountOf(me.data, m) < R)

\* an iteration starts with one machine at its quota of 2 and off the list
\* and another below it and on the list
C22_Witness ==
    /\ AtLoopStart
    /\ proc[1].num_records_per_machine = 2
    /\ proc[1].machines = <<"M001", "M002", "M003">>
    /\ proc[1].i < proc[1].num_total_records
    /\ CountOf(proc[1].data, "M002") = 2
    /\ proc[1].available_machines = <<"M001", "M003">>
    /\ CountOf(proc[1].data, "M003") = 1

\* the timestamps of a list of records increase strictly
StrictlyIncreasing(data) ==
    \A j, k \in 1..Len(data) : j < k => data[j].timestamp < data[k].timestamp

\* C23: the clock advances before reading i (counted from 0) by a whole
\* number of seconds from 1 to 15 + i \div 10, so the timestamps of the
\* records increase strictly in the order they are made, no two records of
\* a batch have one timestamp, and the sort at the end changes nothing.
C23_ClockAdvances ==
    /\ [](proc[1].caller = "direct" => StrictlyIncreasing(proc[1].data))
    /\ [][((proc[1].pc = "gen_loop" /\ proc'[1].i = proc[1].i + 1) =>
              ((\E s \in 1..(15 + (proc[1].i \div 10)) :
                   proc'[1].current_time =
                       proc[1].current_time + (s * TicksPerSec))
               /\ (proc'[1].data[Len(proc'[1].data)].timestamp =
                      proc'[1].current_time \div TicksPerSec)))
          /\ ((proc[1].pc = "gen_loop" /\ proc'[1].pc = "returned") =>
              (proc'[1].data = proc[1].data))]_vars

\* a batch of 20 records is returned whose eleventh record is 16 seconds
\* after the tenth, from a start between two seconds
C23_Witness ==
    /\ Returned(1)
    /\ Len(proc[1].data) = 20
    /\ proc[1].data[11].timestamp - proc[1].data[10].timestamp = 16
    /\ proc[1].current_time % TicksPerSec # 0

\* C24: for distinct machine IDs and R >= 1, the available list is not
\* empty at the start of any of the R*M iterations, so the loop never
\* leaves by its break, and the list is empty once record R*M is appended.
C24_ExitsCoincide ==
    LET me == proc[1]
        R == me.num_records_per_machine
        total == R * Len(me.machines)
    IN  (AtLoopStart /\ R >= 1 /\ Distinct(me.machines)) =>
            /\ me.num_total_records = total
            /\ Len(me.data) = me.i
            /\ me.i <= total
            /\ (me.i < total) => me.available_machines # <<>>
            /\ (me.i = total) => me.available_machines = <<>>

\* the range of 6 is exhausted for 3 machines and the list is empty
C24_Witness ==
    /\ AtLoopStart
    /\ proc[1].machines = <<"M001", "M002", "M003">>
    /\ proc[1].num_records_per_machine = 2
    /\ proc[1].i = 6
    /\ Len(proc[1].data) = 6
    /\ proc[1].available_machines = <<>>

----------------------------------------------------------------------------
(* Claims about the readings, under SpecReadings *)

\* the rows generated so far
Rows == {proc[1].data[k] : k \in 1..Len(proc[1].data)}

Within(x, low, high) == low <= x /\ x <= high

\* the channels of a row that lie outside their normal baseline ranges
OutsideNormal(row) ==
    {c \in {"temperature", "vibration", "pressure"} :
        ~Within(row[c], IF c = "temperature" THEN 65000
                        ELSE IF c = "vibration" THEN 10 ELSE 98000,
                        IF c = "temperature" THEN 80000
                        ELSE IF c = "vibration" THEN 200 ELSE 102000)}

\* the channels of a row that meet a warning-range condition
InWarningRange(row) ==
    {c \in {"temperature", "vibration", "pressure"} :
        \/ c = "temperature" /\ Within(row.temperature, 85000, 94900)
        \/ c = "vibration" /\ Within(row.vibration, 500, 790)
        \/ c = "pressure" /\ \/ Within(row.pressure, 105000, 109900)
                              \/ Within(row.pressure, 92100, 95000)}

\* the channels of a row that meet a critical condition
InCriticalRange(row) ==
    {c \in {"temperature", "vibration", "pressure"} :
        \/ c = "temperature" /\ row.temperature >= 95000
        \/ c = "vibration" /\ row.vibration >= 800
        \/ c = "pressure" /\ (row.pressure >= 110000 \/ row.pressure <= 92000)}

\* C11: a row of status WARN meets a warning-range condition (temperature
\* in [85.0, 94.9], vibration in [0.5, 0.79], pressure in [105.0, 109.9] or
\* in [92.1, 95.0]) and no critical condition (temperature < 95.0, vibration
\* < 0.8, 92.0 < pressure < 110.0).
C11_WarnInWarningRange ==
    \A row \in Rows :
        row.status_code = "WARN" =>
            /\ InWarningRange(row) # {}
            /\ InCriticalRange(row) = {}
            /\ row.temperature < 95000
            /\ row.vibration < 800
            /\ 92000 < row.pressure /\ row.pressure < 110000

C11_Witness ==
    /\ Returned(1)
    /\ \E row \in Rows : row.status_code = "WARN" /\ row.temperature = 94900

\* C12: a row of status CRIT has temperature >= 95.0, or vibration >= 0.8,
\* or pressure >= 110.0, or pressure <= 92.0.
C12_CritInCriticalRange ==
    \A row \in Rows :
        row.status_code = "CRIT" =>
            \/ row.temperature >= 95000
            \/ row.vibration >= 800
            \/ row.pressure >= 110000
            \/ row.pressure <= 92000

C12_Witness ==
    /\ Returned(1)
    /\ \E row \in Rows : row.status_code = "CRIT" /\ row.pressure = 92000

\* C13: a row of status AOK has temperature in [65.0, 80.0], vibration in
\* [0.01, 0.2] and pressure in [98.0, 102.0].
C13_AokInNormalRanges ==
    \A row \in Rows :
        row.status_code = "AOK" =>
            /\ Within(row.temperature, 65000, 80000)
            /\ Within(row.vibration, 10, 200)
            /\ Within(row.pressure, 98000, 102000)

C13_Witness ==
    /\ Returned(1)
    /\ \E row \in Rows :
          /\ row.status_code = "AOK"
          /\ row.temperature = 72500 /\ row.vibration = 110 /\ row.pressure = 102000

\* C14: in a row of status WARN or CRIT exactly one channel lies outside
\* its normal baseline range, and no row has a channel in a warning range
\* and another channel in a critical range.
C14_OneAnomalousChannel ==
    \A row \in Rows :
        /\ row.status_code \in {"WARN", "CRIT"} => Cardinality(OutsideNormal(row)) = 1
        /\ ~\E c \in InWarningRange(row), d \in InCriticalRange(row) : c # d

C14_Witness ==
    /\ Returned(1)
    /\ \E row \in Rows :
          /\ row.status_code = "CRIT"
          /\ OutsideNormal(row) = {"vibration"}
          /\ row.vibration = 1300

\* the rows generated so far that are not AOK, by their places
AnomalousRows == {k \in 1..Len(proc[1].data) : proc[1].data[k].status_code # "AOK"}

\* C27: with random.random() in [0, 1), an anomaly probability of 0 or less
\* makes every row AOK and one of 1 or more makes every row WARN or CRIT;
\* the draw that decides between critical and warning is made for the
\* anomalous readings and for no other.
C27_BoundaryProbabilities ==
    LET me == proc[1]
    IN  (me.caller = "direct" /\ me.pc # "gen_entry") =>
            /\ me.anomaly_probability <= 0 =>
                   \A row \in Rows : row.status_code = "AOK"
            /\ me.anomaly_probability >= 1000 =>
                   \A row \in Rows : row.status_code \in {"WARN", "CRIT"}
            /\ me.critical_draws = Cardinality(AnomalousRows)

\* a batch made with probability 1.0 is returned, its row a warning drawn
\* after one critical/warning draw
C27_Witness ==
    /\ Returned(1)
    /\ proc[1].anomaly_probability = 1000
    /\ Len(proc[1].data) = 1
    /\ proc[1].data[1].status_code = "WARN"
    /\ proc[1].critical_draws = 1

----------------------------------------------------------------------------
(* Claims about one run against any directory, under SpecDir *)

\* the directory the run found
OldFiles == snapshot.files

\* N: the highest batch number the run found (0: no batch file)
OldHighest == HighestNum(DOMAIN OldFiles)

\* the highest-numbered batch file the run found
OldLatest == OldFiles[BatchFileName(OldHighest)]

NewName == BatchFileName(OldHighest + 1)

\* the batch written last
LastWritten == written[Len(written)]

LastRecord(data) == data[Len(data)]

BetweenLocateAndWrite(p) == proc[p].pc \in {"gen_entry", "gen_loop", "write"}

\* get_latest_batch_info has returned to the run
Located(p) ==
    \/ proc[p].pc \in {"gen_entry", "gen_loop", "write", "done"}
    \/ proc[p].pc = "failed" /\ proc[p].error = "write"

\* the non-empty rows below the header
DataRows(content) == SelectSeq(Tail(content.lines), LAMBDA row : row # <<>>)

HasTimestamp(row) == Len(row) >= 2 /\ IsIsoTimestamp(row[2])

\* C2: a run that finds batch files of highest number N creates exactly the
\* file sensor_data_batch_<N+1>.csv, and every file it found is still there
\* and holds what it held.
C2_OnlyNextBatchWritten ==
    /\ \A f \in DOMAIN OldFiles : f \in DOMAIN files /\ files[f] = OldFiles[f]
    /\ DOMAIN files \subseteq DOMAIN OldFiles \cup {NewName}
    /\ proc[1].pc = "done" =>
          /\ NewName \in DOMAIN files
          /\ NewName \notin DOMAIN OldFiles
          /\ files[NewName] = WrittenFile(proc[1].data)
          /\ proc[1].next_batch_num = OldHighest + 1

C2_Witness ==
    /\ proc[1].pc = "done"
    /\ {BatchFileName(1), BatchFileName(2), BatchFileName(3), OtherName}
          \subseteq DOMAIN OldFiles
    /\ OldHighest = 3
    /\ BatchFileName(4) \in DOMAIN files
    /\ Len(proc[1].data) > 0

\* the highest-numbered batch file found ends with a data row of timestamp T
EndsWithTimestamp(content) ==
    /\ content.ok
    /\ Len(content.lines) >= 2
    /\ HasTimestamp(content.lines[Len(content.lines)])

\* C4: when the highest-numbered batch file ends with a data row of
\* timestamp T, the first row of the batch the run writes has a timestamp
\* strictly greater than T.
C4_FirstRowAfterLastTimestamp ==
    (/\ OldHighest >= 1
     /\ EndsWithTimestamp(OldLatest)
     /\ proc[1].pc = "done"
     /\ proc[1].data # <<>>)
    => LET T == OldLatest.lines[Len(OldLatest.lines)][2]
       IN  /\ files[NewName].lines[2][2] > T
           /\ proc[1].data[1].timestamp > T

C4_Witness ==
    /\ OldHighest >= 1
    /\ EndsWithTimestamp(OldLatest)
    /\ OldLatest.lines[Len(OldLatest.lines)][2] = 400
    /\ strftime(now_minus_one_hour(now)) < 400
    /\ proc[1].pc = "done"
    /\ proc[1].data # <<>>

\* the last timestamp of the highest-numbered batch file cannot be had: the
\* file cannot be read, has no header line, or its last non-empty row is
\* short or carries no timestamp
TimestampUnobtainable(content) ==
    \/ ~content.ok
    \/ content.lines = <<>>
    \/ /\ DataRows(content) # <<>>
       /\ ~HasTimestamp(DataRows(content)[Len(DataRows(content))])

\* C7: when batch file N is the highest and its last timestamp cannot be
\* had, get_latest_batch_info raises nothing and returns (N+1, now - 1 hour),
\* and the run goes on to write batch N+1.
C7_FallbackOnUnreadableLatest ==
    (OldHighest >= 1 /\ TimestampUnobtainable(OldLatest) /\ proc[1].pc # "main")
    => /\ proc[1].pc = "failed" => proc[1].error = "write"
       /\ Located(1) =>
             /\ proc[1].next_batch_num = OldHighest + 1
             /\ proc[1].last_timestamp = now_minus_one_hour(now)
       /\ proc[1].pc \in {"write", "done"} => proc[1].output_filename = NewName
       /\ proc[1].pc = "done" => NewName \in DOMAIN files

C7_Witness ==
    /\ OldHighest = 10
    /\ OldLatest.ok
    /\ OldLatest.lines # <<>>
    /\ DataRows(OldLatest) # <<>>
    /\ Len(DataRows(OldLatest)[Len(DataRows(OldLatest))]) < 2
    /\ proc[1].pc = "done"
    /\ BatchFileName(11) \in DOMAIN files

\* C8: of the batch files found, the one of the numerically highest N is
\* read, and when its last non-empty data row carries a timestamp T the
\* locator returns exactly (N+1, T).
C8_HighestNumberLastRow ==
    (/\ OldHighest >= 1
     /\ OldLatest.ok
     /\ OldLatest.lines # <<>>
     /\ DataRows(OldLatest) # <<>>
     /\ HasTimestamp(DataRows(OldLatest)[Len(DataRows(OldLatest))])
     /\ Located(1))
    => /\ proc[1].next_batch_num = OldHighest + 1
       /\ proc[1].last_timestamp =
             fromisoformat(DataRows(OldLatest)[Len(DataRows(OldLatest))][2])

C8_Witness ==
    /\ {BatchFileName(2), BatchFileName(10)} \subseteq DOMAIN OldFiles
    /\ OldLatest = Readable(<<HeaderRow, OldRow(400), OldRow(200)>>)
    /\ Located(1)
    /\ proc[1].next_batch_num = 11
    /\ proc[1].last_timestamp = fromisoformat(200)

\* C9: when no file found is a batch file, get_latest_batch_info returns
\* (1, None); a directory that did not exist is created first, one that did
\* is left as it was; a run from no directory creates it and writes batch 1.
C9_NoBatchFound ==
    (OldHighest = 0 /\ Located(1))
    => /\ proc[1].next_batch_num = 1
       /\ proc[1].last_timestamp = None
       /\ dirExists
       /\ proc[1].pc \in {"gen_entry", "gen_loop", "write"} => files = OldFiles
       /\ (proc[1].pc = "done" /\ ~snapshot.dirExists) =>
             /\ DOMAIN files = {BatchFileName(1)}
             /\ files[BatchFileName(1)] = WrittenFile(proc[1].data)

\* C16: when the output directory cannot be created, or the CSV cannot be
\* opened or fully written, the run ends failed: write_csv has returned no
\* path and printed no "Generated ... records and saved" message, also when
\* a partly written file is left; the message is printed and the path
\* returned only with the whole file written.
C16_WriteErrorsPropagate ==
    /\ proc[1].pc = "failed" =>
          /\ proc[1].error # ""
          /\ proc[1].output_file = NoFile
          /\ ~proc[1].saved_message
    /\ (proc[1].pc = "failed" /\ proc[1].error = "makedirs") =>
          ~dirExists /\ files = OldFiles
    /\ (Len(written) >= 1 /\ ~LastWritten.complete) => proc[1].pc = "failed"
    /\ (proc[1].saved_message \/ proc[1].output_file # NoFile) =>
          /\ proc[1].pc = "done"
          /\ proc[1].output_file = proc[1].output_filename
          /\ proc[1].output_file \in DOMAIN files
          /\ files[proc[1].output_file] = WrittenFile(proc[1].data)

C16_Witness ==
    /\ proc[1].pc = "failed"
    /\ proc[1].error = "write"
    /\ Len(written) = 1
    /\ ~LastWritten.complete
    /\ Len(proc[1].data) > 0
    /\ NewName \in DOMAIN files
    /\ files[NewName] = Readable(SubSeq(CsvLines(proc[1].data), 1, 2))
    /\ files[NewName] # WrittenFile(proc[1].data)

C9_Witness ==
    /\ ~snapshot.dirExists
    /\ proc[1].pc = "done"
    /\ dirExists
    /\ BatchFileName(1) \in DOMAIN files
    /\ Len(proc[1].data) > 0

\* the file holds a header and no non-empty row below it
HeaderOnly(content) ==
    content.ok /\ content.lines # <<>> /\ DataRows(content) = <<>>

----------------------------------------------------------------------------
(* Claims about runs that follow one another, under SpecRuns *)

\* C3: from an absent or an empty directory, the numbers of the batch files
\* written are positive, the first is 1, and each is strictly greater than
\* every number written before it.
C3_BatchNumbersIncrease ==
    /\ \A k \in 1..Len(written) : written[k].num >= 1
    /\ Len(written) >= 1 => written[1].num = 1
    /\ \A j, k \in 1..Len(written) : j < k => written[j].num < written[k].num

C3_Witness ==
    /\ Len(written) = 3
    /\ written[1].complete /\ ~written[2].complete /\ written[3].complete
    /\ written[3].num = 3
    /\ proc[1].pc = "done"

\* every run so far has ended, and ended well
AllRunsSucceeded ==
    /\ proc[1].pc = "done"
    /\ Len(written) = runs
    /\ \A k \in 1..Len(written) : written[k].complete

\* C5: over runs that all succeed, whatever their arguments and the wall
\* clock, every timestamp of a batch written later is strictly greater than
\* every timestamp of every batch written earlier.
C5_NoOverlapAcrossBatches ==
    AllRunsSucceeded =>
        \A j, k \in 1..Len(written) :
            j < k =>
                \A a \in 1..Len(written[j].data), b \in 1..Len(written[k].data) :
                    written[k].data[b].timestamp > written[j].data[a].timestamp

\* C15: after a non-empty batch is written as the highest-numbered file N,
\* get_latest_batch_info returns (N+1, T), T the timestamp to the second of
\* the last record of the batch in memory, and no record of the batch has a
\* later timestamp.
C15_RoundTrip ==
    (Len(written) >= 1 /\ LastWritten.complete /\ LastWritten.data # <<>>)
    => LET T == LastRecord(LastWritten.data).timestamp
       IN  /\ \A k \in 1..Len(LastWritten.data) : LastWritten.data[k].timestamp <= T
           /\ proc[1].pc = "done" =>
                 LET info == get_latest_batch_info(dirExists, files, now)
                 IN  /\ info.next_batch_num = LastWritten.num + 1
                     /\ info.last_timestamp = fromisoformat(T)
                     /\ strftime(info.last_timestamp) = T
           /\ BetweenLocateAndWrite(1) =>
                 /\ proc[1].next_batch_num = LastWritten.num + 1
                 /\ proc[1].last_timestamp = fromisoformat(T)
                 /\ strftime(proc[1].last_timestamp) = T

C15_Witness ==
    /\ Len(written) = 1
    /\ LastWritten.complete
    /\ Len(LastWritten.data) = 10
    /\ LastWritten.data[1].timestamp < LastRecord(LastWritten.data).timestamp
    /\ proc[1].pc = "write"
    /\ proc[1].next_batch_num = 2
    /\ proc[1].last_timestamp = fromisoformat(LastRecord(LastWritten.data).timestamp)

\* the writes that failed after the file was created or truncated
FailedWrites == {k \in 1..Len(written) : ~written[k].complete}

\* C26: when a write has failed after creating or truncating batch file N,
\* the file stays as the failure left it; the locator of the next run raises
\* nothing and returns N+1 whatever the partial file holds, and no later
\* write takes the number N again.
C26_FailedWriteConsumesNumber ==
    /\ [](/\ \A k \in FailedWrites :
               /\ BatchFileName(written[k].num) \in DOMAIN files
               /\ \A j \in (k + 1)..Len(written) : written[j].num > written[k].num
          /\ (FailedWrites # {} /\ proc[1].pc = "failed") => proc[1].error = "write"
          /\ (written # <<>> /\ ~written[Len(written)].complete
                 /\ proc[1].pc \in {"gen_entry", "gen_loop", "write", "done"})
               => proc[1].next_batch_num = written[Len(written)].num + 1)
    /\ [][\A k \in FailedWrites :
             files'[BatchFileName(written[k].num)] =
                 files[BatchFileName(written[k].num)]]_vars

\* the write of batch 1 failed and left a header, a row and the start of a
\* row; the next run has written batch 2 and the partial file is as it was
C26_Witness ==
    /\ Len(written) = 2
    /\ ~written[1].complete /\ written[1].num = 1
    /\ written[2].complete /\ written[2].num = 2
    /\ proc[1].pc = "done"
    /\ Len(files[BatchFileName(1)].lines) = 3
    /\ files[BatchFileName(1)].lines[3] = ShortRow
    /\ files[BatchFileName(2)] = WrittenFile(proc[1].data)

----------------------------------------------------------------------------
(* Claims about calls of get_latest_batch_info, under SpecRecover *)

\* the directory with every file but the highest-numbered batch file made
\* unreadable
OnlyLatestKept(fs) ==
    [f \in DOMAIN fs |->
        IF HighestNum(DOMAIN fs) >= 1 /\ f = BatchFileName(HighestNum(DOMAIN fs))
        THEN fs[f] ELSE Unreadable]

\* the last row of the highest-numbered batch file found can be parsed, or
\* there is no such row
LastRowParseable ==
    OldHighest >= 1 => ReadLastTimestamp(OldLatest).exc = ""

\* C18: on an existing directory get_latest_batch_info changes no file; two
\* calls with no write between them return the same next batch number, and
\* the same timestamp when the last row is parseable; what a call returns
\* is what it returns when only the file names and the content of the
\* highest-numbered file are kept, at any time of the clock.
C18_IdempotentRecovery ==
    /\ dirExists /\ files = OldFiles
    /\ \A p \in Procs : proc[p].pc \in {"idle", "returned"}
    /\ (Returned(1) /\ Returned(2)) =>
          /\ proc[1].next_batch_num = proc[2].next_batch_num
          /\ LastRowParseable => proc[1].last_timestamp = proc[2].last_timestamp
    /\ \A p \in Procs : Returned(p) =>
          \A c \in ClockValues :
              LET info == get_latest_batch_info(TRUE, OnlyLatestKept(files), c)
              IN  /\ proc[p].next_batch_num = info.next_batch_num
                  /\ proc[p].next_batch_num = HighestNum(DOMAIN files) + 1
                  /\ LastRowParseable => proc[p].last_timestamp = info.last_timestamp

C18_Witness ==
    /\ Returned(1) /\ Returned(2)
    /\ {BatchFileName(3), BatchFileName(10), OtherName} \subseteq DOMAIN files
    /\ proc[1].next_batch_num = 11 /\ proc[2].next_batch_num = 11
    /\ proc[1].last_timestamp = fromisoformat(200)
    /\ proc[2].last_timestamp = fromisoformat(200)
    /\ now = timedelta(HourSecs + 300) + MaxClock

----------------------------------------------------------------------------
(* Claims about the upload tool, under SpecUpload *)

\* the file get_latest_batch_info treats as the latest batch (lines 14-27)
GeneratorLatest(exists, fs) ==
    IF ~exists THEN NoFile
    ELSE ScanBatchFiles({f \in DOMAIN fs : GlobMatches(f)}, 0, NoFile).latest_file

\* C19: for any directory find_latest_batch_file returns the file that
\* get_latest_batch_info treats as the latest batch, the one of the highest
\* number; after generator runs that succeeded, one after the other, it is
\* the file the most recent run wrote, and that is the file --latest sends.
C19_UploadFindsLatest ==
    /\ find_latest_batch_file(dirExists, files) = GeneratorLatest(dirExists, files)
    /\ (dirExists /\ HighestNum(DOMAIN files) >= 1) =>
          find_latest_batch_file(dirExists, files)
              = BatchFileName(HighestNum(DOMAIN files))
    /\ proc[1].pc = "done" =>
          find_latest_batch_file(dirExists, files) = proc[1].output_file
    /\ \A k \in 1..Len(uploads) :
          uploads[k].written_before >= 1 =>
              uploads[k].file_path = BatchFileName(written[uploads[k].written_before].num)

C19_Witness ==
    /\ proc[1].pc = "done"
    /\ Len(written) = 2
    /\ {BatchFileName(3), BatchFileName(10)} \subseteq DOMAIN snapshot.files
    /\ Len(uploads) = 1
    /\ uploads[1].ok
    /\ uploads[1].written_before = 2
    /\ uploads[1].file_path = BatchFileName(12)
    /\ uploads[1].key = "raw_data/sensor_data_batch_12_3900.csv"
    /\ bucket[uploads[1].key] = WrittenFile(proc[1].data)

\* the data rows of the objects under raw_data/
IngestedRows ==
    UNION {{DataRows(bucket[key])[k] : k \in 1..Len(DataRows(bucket[key]))} :
              key \in DOMAIN bucket}

\* C20: every data row that a script has put under raw_data/ has a
\* status_code of AOK, WARN or CRIT.
C20_IngestedStatusCodes ==
    \A row \in IngestedRows : row[6] \in {"AOK", "WARN", "CRIT"}

----------------------------------------------------------------------------
(* Claims about the arguments of a run, under SpecArgs *)

InvalidArgs(me) ==
    \/ me.records_per_machine < 0
    \/ me.anomalies < 0
    \/ me.anomalies > 1000

\* C17: a run started with a negative --records_per_machine or with an
\* --anomalies value outside [0, 1] is rejected before generation starts:
\* it synthesizes no record and writes no batch file.
C17_InvalidArgsRejected ==
    (proc[1].pc # "idle" /\ InvalidArgs(proc[1]))
    => /\ proc[1].pc \in {"main", "failed"}
       /\ proc[1].data = <<>>
       /\ written = <<>>
       /\ files = OldFiles

----------------------------------------------------------------------------
(* Claims about two runs at once, under SpecRace *)

\* C6: when both runs have left get_latest_batch_info before either calls
\* write_csv they hold the same next_batch_number, and the write_csv that
\* comes later replaces the file the earlier one wrote.
C6_RaceOverwrites ==
    /\ (BetweenLocateAndWrite(1) /\ BetweenLocateAndWrite(2))
          => proc[1].next_batch_num = proc[2].next_batch_num
    /\ (/\ proc[1].pc = "done" /\ proc[2].pc = "done"
        /\ proc[1].next_batch_num = proc[2].next_batch_num)
          => /\ Len(written) = 2
             /\ files[BatchFileName(written[2].num)] = WrittenFile(written[2].data)
             /\ DOMAIN files =
                   DOMAIN snapshot.files \cup {BatchFileName(written[2].num)}

C6_Witness ==
    /\ proc[1].pc = "done" /\ proc[2].pc = "done"
    /\ Len(written) = 2
    /\ written[1].by # written[2].by
    /\ written[1].num = written[2].num
    /\ written[1].data # written[2].data
    /\ files[BatchFileName(written[2].num)] = WrittenFile(written[2].data)
    /\ files[BatchFileName(written[2].num)] # WrittenFile(written[1].data)

----------------------------------------------------------------------------
(* Claims about direct calls of write_csv, under SpecWrite *)

\* the call of write_csv by process 1 has returned
WriteReturned == proc[1].caller = "direct" /\ proc[1].pc = "done"

\* C21: when write_csv returns, the directory exists, the file named holds
\* the header machine_id, timestamp, temperature, vibration, pressure,
\* status_code in that order and then one row of six cells for each record,
\* in the order of the list given, and the path returned is the path given.
C21_WriteCsvContract ==
    WriteReturned =>
        LET me == proc[1]
            name == me.output_filename
        IN  /\ dirExists
            /\ name \in DOMAIN files
            /\ files[name].ok
            /\ Len(files[name].lines) = Len(me.data) + 1
            /\ files[name].lines[1] =
                   <<"machine_id", NotATimestamp, "temperature", "vibration",
                     "pressure", "status_code">>
            /\ \A k \in 1..Len(me.data) :
                   /\ Len(files[name].lines[k + 1]) = 6
                   /\ files[name].lines[k + 1] =
                          <<me.data[k].machine_id, me.data[k].timestamp,
                            me.data[k].temperature, me.data[k].vibration,
                            me.data[k].pressure, me.data[k].status_code>>
            /\ me.output_file = name

\* write_csv has returned where there was no directory, its two records not
\* in the order of their timestamps
C21_Witness ==
    /\ WriteReturned
    /\ ~snapshot.dirExists
    /\ Len(proc[1].data) = 2
    /\ proc[1].data[1].timestamp > proc[1].data[2].timestamp
    /\ Len(files[proc[1].output_filename].lines) = 3

----------------------------------------------------------------------------
(* Claims about the keys of the upload tool, under SpecKeys *)

\* the uploads upload_file_to_s3 has tried
ToolUploads ==
    {k \in 1..Len(uploads) :
        uploads[k].script = "03_upload_file" /\ uploads[k].key # NoFile}

\* the name is sensor_data_batch_<digits>.csv
IsBatchFile(name) == name \in {BatchFileName(n) : n \in 0..MaxBatchNum}

\* C30: every key upload_file_to_s3 targets begins with raw_data/; without
\* a custom name and for a batch file sensor_data_batch_<N>.csv the key is
\* raw_data/sensor_data_batch_<N>_<epoch seconds>.csv, which passes the
\* prefix and suffix rules of the bucket notification and the prefix and
\* the .csv test of the sensor.
C30_UploadKeys ==
    \A k \in ToolUploads :
        LET u == uploads[k]
        IN  /\ SubSeq(u.key, 1, 9) = "raw_data/"
            /\ (u.custom_filename = NoFile /\ IsBatchFile(u.file_path)) =>
                   /\ u.key = "raw_data/"
                                \o SubSeq(u.file_path, 1, Len(u.file_path) - 4)
                                \o "_" \o ToString(u.at \div TicksPerSec) \o ".csv"
                   /\ NotificationFilter(u.key)
                   /\ u.key \in CurrentFiles([key \in {u.key} |-> Unreadable])

\* the tool has sent batch 10 without a custom name
C30_Witness ==
    /\ Len(uploads) = 1
    /\ uploads[1].ok
    /\ uploads[1].file_path = BatchFileName(10)
    /\ uploads[1].custom_filename = NoFile
    /\ uploads[1].key = "raw_data/sensor_data_batch_10_3900.csv"
    /\ uploads[1].key \in DOMAIN bucket

----------------------------------------------------------------------------
(* Claims about s3_file_sensor, under SpecSensor *)

\* the key has no comma in it
NoComma(key) == \A i \in 1..Len(key) : SubSeq(key, i, i) # ","

\* the .csv keys under raw_data/ among the keys listed
CsvUnderRawData(keys) ==
    {key \in keys : SubSeq(key, 1, 9) = "raw_data/"
                      /\ Len(key) >= 4 /\ SubSeq(key, Len(key) - 3, Len(key)) = ".csv"}

\* C28: a .csv key without a comma under raw_data/ that an evaluation lists
\* and does not find in the cursor is among the new files of the RunRequest
\* the evaluation returns; every such key listed is in the cursor the
\* evaluation leaves, which is the cursor the next one reads; and a key that
\* two evaluations count as new was absent from the bucket at an evaluation
\* between them, so a key that stays listed is counted as new once.
C28_ReportedOnce ==
    /\ \A k \in 1..Len(evaluations) :
          LET e == evaluations[k]
              recorded == split(e.cursor_after, ",")
          IN  \A key \in {c \in CsvUnderRawData(e.listed) : NoComma(c)} :
                  /\ key \in recorded
                  /\ key \notin e.last_processed =>
                         e.run_request /\ key \in e.new_files
    /\ \A j, k \in 1..Len(evaluations) :
          j < k =>
              \A key \in evaluations[j].new_files \cap evaluations[k].new_files :
                  NoComma(key) =>
                      \E m \in (j + 1)..(k - 1) : key \notin evaluations[m].listed
    /\ \A k \in 1..(Len(evaluations) - 1) :
          evaluations[k + 1].cursor = evaluations[k].cursor_after

\* two evaluations: the first reports an object put earlier, the second
\* an object uploaded since and not the first again, and both keys are in
\* the cursor
C28_Witness ==
    /\ Len(evaluations) = 2
    /\ evaluations[1].new_files = {"raw_data/sensor_data_batch_1.csv"}
    /\ evaluations[2].run_request
    /\ evaluations[2].new_files = {"raw_data/custom.csv"}
    /\ evaluations[2].listed =
           {"archive/old.csv", "raw_data/sensor_data_batch_1.csv",
            "raw_data/custom.csv"}
    /\ split(cursor, ",") =
           {"raw_data/sensor_data_batch_1.csv", "raw_data/custom.csv"}

\* C29: an evaluation that finds every .csv key listed under raw_data/ in
\* the cursor returns no RunRequest and leaves the cursor as it was, also
\* when the bucket is empty or keys of the cursor are gone from it; a key
\* that does not end in .csv is never among the new files.
C29_NothingNew ==
    \A k \in 1..Len(evaluations) :
        LET e == evaluations[k]
        IN  /\ CsvUnderRawData(e.listed) \subseteq e.last_processed =>
                   ~e.run_request /\ e.cursor_after = e.cursor
            /\ e.run_request => CsvUnderRawData(e.listed) \ e.last_processed # {}
            /\ e.cursor_after # e.cursor => e.run_request
            /\ e.new_files \subseteq CsvUnderRawData(e.listed)

\* an evaluation after the one object of the cursor was deleted and a file
\* that is no .csv was uploaded: no RunRequest, the cursor as it was
C29_Witness ==
    /\ Len(evaluations) = 2
    /\ evaluations[1].new_files = {"raw_data/sensor_data_batch_1.csv"}
    /\ evaluations[2].listed = {"archive/old.csv", "raw_data/notes_3900.txt"}
    /\ evaluations[2].cursor = "raw_data/sensor_data_batch_1.csv"
    /\ ~evaluations[2].run_request
    /\ cursor = "raw_data/sensor_data_batch_1.csv"

====
